---- MODULE Spec2Model ----
(***************************************************************************)
(* The transcription request pipeline of app.py: credential resolution,    *)
(* source validation, the HEAD probe, the streamed download into a         *)
(* temporary file, the single transcription call and the cleanup.          *)
(*                                                                         *)
(* Python strings are sequences of one-character strings, so that          *)
(* startswith, slicing, strip, lower, urlparse, splitext, basename and     *)
(* int() are computed on characters as the library computes them.          *)
(* Each worker thread serves one call of transcribe_audio or               *)
(* transcribe_audio_from_url; frame[r] is the stack frame of that call.    *)
(***************************************************************************)
EXTENDS Integers, Sequences, FiniteSets, TLC

\* ------------------------------------------------------------- bounds
\* Worker threads of the server (ConcSpec runs all of them, Spec one).
NumReq == 2
\* Names the temporary directory can hand out.
NumTmpNames == 2

\* ---------------------------------------------------- program constants
MiB == 1024 * 1024
MaxMB == 25
MaxBytes == MaxMB * MiB
ChunkSize == 8192

\* ------------------------------------------------------------- values
\* Python's None, distinct from every character sequence.
None == <<"None">>

Truthy(v) == v # None /\ v # <<>>

s_E == <<"E">>
s_X == <<"X">>
BearerPrefix == <<"B", "e", "a", "r", "e", "r", " ">>
h_BearerH == <<"B", "e", "a", "r", "e", "r", " ", "H">>
h_BearerOnly == <<"B", "e", "a", "r", "e", "r", " ">>
h_BasicH == <<"B", "a", "s", "i", "c", " ", "H">>

f_podcast == <<"/", "t", "m", "p", "/", "p", "o", "d", "c", "a", "s", "t", ".", "m", "p", "3">>
f_clipUpper == <<"/", "t", "m", "p", "/", "C", "L", "I", "P", ".", "M", "P", "4">>
f_notes == <<"/", "t", "m", "p", "/", "n", "o", "t", "e", "s", ".", "t", "x", "t">>
f_talk == <<"/", "t", "m", "p", "/", "t", "a", "l", "k">>
f_dotfile == <<"/", "t", "m", "p", "/", ".", "m", "p", "3">>
f_dotdir == <<"/", "t", "m", "p", "/", "v", "1", ".", "0", "/", "t", "a", "l", "k">>
f_bak == <<"/", "t", "m", "p", "/", "a", ".", "m", "p", "3", ".", "b", "a", "k">>

u_clip == <<"h", "t", "t", "p", "s", ":", "/", "/", "e", "x", "a", "m", "p", "l", "e", ".", "c", "o", "m", "/", "c", "l", "i", "p", ".", "m", "p", "4">>
u_talk == <<"h", "t", "t", "p", "s", ":", "/", "/", "e", "x", "a", "m", "p", "l", "e", ".", "c", "o", "m", "/", "t", "a", "l", "k">>
u_ftp == <<"f", "t", "p", ":", "/", "/", "h", "o", "s", "t", "/", "f", "i", "l", "e", ".", "m", "p", "3">>
u_noscheme == <<"e", "x", "a", "m", "p", "l", "e", ".", "c", "o", "m", "/", "a", ".", "m", "p", "3">>
u_query == <<"h", "t", "t", "p", ":", "/", "/", "h", "/", "a", ".", "M", "P", "3", "?", "x", "=", "1", ".", "t", "x", "t">>
u_nohost == <<"h", "t", "t", "p", "s", ":", "/", "/", "/", "a", ".", "m", "p", "3">>
u_blank == <<" ", " ">>
u_barehost == <<"h", "t", "t", "p", "s", ":", "/", "/", "h">>
u_upper == <<"H", "T", "T", "P", ":", "/", "/", "h", "/", "a", ".", "w", "a", "v">>

cl_5 == <<"5">>
cl_max == <<"2", "6", "2", "1", "4", "4", "0", "0">>
cl_over == <<"2", "6", "2", "1", "4", "4", "0", "1">>
cl_30MiB == <<"3", "1", "4", "5", "7", "2", "8", "0">>
cl_bad == <<"a", "b", "c">>

\* ------------------------------------------------- string primitives
UpperChars == <<"A", "B", "C", "D", "E", "F", "G", "H", "I", "J", "K", "L", "M", "N", "O", "P", "Q", "R", "S", "T", "U", "V", "W", "X", "Y", "Z">>
LowerChars == <<"a", "b", "c", "d", "e", "f", "g", "h", "i", "j", "k", "l", "m", "n", "o", "p", "q", "r", "s", "t", "u", "v", "w", "x", "y", "z">>
DigitChars == <<"0", "1", "2", "3", "4", "5", "6", "7", "8", "9">>

Range(s) == {s[i] : i \in DOMAIN s}

Min(a, b) == IF a <= b THEN a ELSE b

\* str.lower() of one character, then of a string.
LowerChar(c) ==
    IF \E i \in DOMAIN UpperChars : UpperChars[i] = c
    THEN LowerChars[CHOOSE i \in DOMAIN UpperChars : UpperChars[i] = c]
    ELSE c

Lower(s) == [i \in DOMAIN s |-> LowerChar(s[i])]

\* s.startswith(p)
StartsWith(s, p) == Len(s) >= Len(p) /\ SubSeq(s, 1, Len(p)) = p

\* s[n:] with a 0-based n, as Python slices.
SliceFrom(s, n) == SubSeq(s, n + 1, Len(s))

\* s.find over a set of characters from 1-based position `from`; 0 when absent.
FindAny(s, chars, from) ==
    LET hits == {i \in from..Len(s) : s[i] \in chars}
    IN IF hits = {} THEN 0 ELSE CHOOSE i \in hits : \A j \in hits : i <= j

\* s.rfind(c), 1-based; 0 when absent.
RFind(s, c) ==
    LET hits == {i \in DOMAIN s : s[i] = c}
    IN IF hits = {} THEN 0 ELSE CHOOSE i \in hits : \A j \in hits : i >= j

\* s.strip() (the samples hold no whitespace but the space).
Strip(s) ==
    LET keep == {i \in DOMAIN s : s[i] # " "}
    IN IF keep = {} THEN <<>>
       ELSE SubSeq(s, CHOOSE i \in keep : \A j \in keep : i <= j,
                      CHOOSE i \in keep : \A j \in keep : i >= j)

\* os.path.splitext(p)[1]: the suffix from the last dot of the last path
\* segment, unless that segment holds nothing but leading dots before it.
SplitExt(p) ==
    LET sepIndex == RFind(p, "/")
        dotIndex == RFind(p, ".")
    IN IF dotIndex > sepIndex
          /\ \E k \in (sepIndex + 1)..(dotIndex - 1) : p[k] # "."
       THEN SubSeq(p, dotIndex, Len(p))
       ELSE <<>>

\* os.path.basename(p)
Basename(p) == SliceFrom(p, RFind(p, "/"))

\* int(s) of a decimal string: whether it parses, and its value.
IsInt(s) == s # <<>> /\ \A i \in DOMAIN s : s[i] \in Range(DigitChars)

DigitValue(c) == (CHOOSE i \in DOMAIN DigitChars : DigitChars[i] = c) - 1

RECURSIVE IntValue(_)
IntValue(s) ==
    IF s = <<>> THEN 0
    ELSE 10 * IntValue(SubSeq(s, 1, Len(s) - 1)) + DigitValue(s[Len(s)])

\* urllib.parse.urlparse(url), for URLs without ';' parameters or '[' hosts:
\* the scheme up to the first ':' (lower-cased, when it starts with a letter
\* and holds only scheme characters), the netloc after '//' up to the next
\* '/', '?' or '#', and the path up to the first '#' or '?'.
SchemeChars == Range(UpperChars) \cup Range(LowerChars) \cup Range(DigitChars) \cup {"+", "-", "."}

urlparse(url) ==
    LET colon == FindAny(url, {":"}, 1)
        hasScheme == /\ colon > 1
                     /\ url[1] \in Range(UpperChars) \cup Range(LowerChars)
                     /\ \A i \in 1..(colon - 1) : url[i] \in SchemeChars
        scheme == IF hasScheme THEN Lower(SubSeq(url, 1, colon - 1)) ELSE <<>>
        rest1 == IF hasScheme THEN SliceFrom(url, colon) ELSE url
        hasNetloc == StartsWith(rest1, <<"/", "/">>)
        delim == IF FindAny(rest1, {"/", "?", "#"}, 3) = 0
                 THEN Len(rest1) + 1
                 ELSE FindAny(rest1, {"/", "?", "#"}, 3)
        netloc == IF hasNetloc THEN SubSeq(rest1, 3, delim - 1) ELSE <<>>
        rest2 == IF hasNetloc THEN SliceFrom(rest1, delim - 1) ELSE rest1
        hash == FindAny(rest2, {"#"}, 1)
        rest3 == IF hash = 0 THEN rest2 ELSE SubSeq(rest2, 1, hash - 1)
        qmark == FindAny(rest3, {"?"}, 1)
        path == IF qmark = 0 THEN rest3 ELSE SubSeq(rest3, 1, qmark - 1)
    IN [scheme |-> scheme, netloc |-> netloc, path |-> path]

\* ------------------------------------------------ credential resolution
\* os.environ.get("GROQ_API_KEY", api_key): the default only when the
\* variable is not set at all.
EnvironGet(env, default) == IF env = None THEN default ELSE env

NoRequestObj == [isNone |-> TRUE, Authorization |-> None]

RequestWith(h) == [isNone |-> FALSE, Authorization |-> h]

\* The resolver the specification describes (environment, then header, then
\* explicit argument): a faulty variant of ResolveApiKey.
ResolveApiKeyHeaderFirst(env, api_key, request) ==
    IF Truthy(env) THEN env
    ELSE IF /\ ~request.isNone
            /\ Truthy(request.Authorization)
            /\ StartsWith(request.Authorization, BearerPrefix)
            /\ SliceFrom(request.Authorization, 7) # <<>>
         THEN SliceFrom(request.Authorization, 7)
         ELSE api_key

\* actual_api_key as lines 114-120 (and 185-191) compute it.
ResolveApiKey(env, api_key, request) ==
    LET actual_api_key == EnvironGet(env, api_key)
    IN IF /\ ~Truthy(actual_api_key)
          /\ ~request.isNone
          /\ Truthy(request.Authorization)
          /\ StartsWith(request.Authorization, BearerPrefix)
       THEN SliceFrom(request.Authorization, 7)
       ELSE actual_api_key

MissingKeyMsg == "Please provide your Groq API key or set the GROQ_API_KEY environment variable or include in Authorization header"

\* --------------------------------------------------- source validation
valid_extensions ==
    { <<".", "m", "p", "3">>, <<".", "m", "p", "4">>, <<".", "m", "p", "e", "g">>,
      <<".", "m", "p", "g", "a">>, <<".", "m", "4", "a">>, <<".", "w", "a", "v">>,
      <<".", "w", "e", "b", "m">>, <<".", "f", "l", "a", "c">>, <<".", "o", "g", "g">>,
      <<".", "a", "a", "c">> }

NoFile == [isNone |-> TRUE, name |-> <<>>, size |-> 0, exists |-> FALSE]

FileObj(n, sz, ex) == [isNone |-> FALSE, name |-> n, size |-> sz, exists |-> ex]

Outcome(ok, msg) == [raises |-> FALSE, ok |-> ok, message |-> msg]

Raises(msg) == [raises |-> TRUE, ok |-> FALSE, message |-> msg]

\* A validate_file that checks the size only: a faulty variant.
validate_file_size_only(file) ==
    IF file.isNone THEN Outcome(FALSE, "No file uploaded")
    ELSE IF ~file.exists THEN Raises("No such file or directory")
    ELSE IF file.size > MaxBytes THEN Outcome(FALSE, "File size exceeds 25MB limit")
    ELSE Outcome(TRUE, "File is valid")

\* validate_file(file): os.path.getsize raises for a path that is not there;
\* size / (1024 * 1024) > 25 holds exactly when size > 25 * 1024 * 1024.
validate_file(file) ==
    IF file.isNone THEN Outcome(FALSE, "No file uploaded")
    ELSE IF ~file.exists THEN Raises("No such file or directory")
    ELSE IF file.size > MaxBytes THEN Outcome(FALSE, "File size exceeds 25MB limit")
    ELSE IF Lower(SplitExt(file.name)) \notin valid_extensions
         THEN Outcome(FALSE, "Invalid file type. Supported formats")
         ELSE Outcome(TRUE, "File is valid")

\* A pre-probe check that lets every extension through: a faulty variant.
validate_url_checks_any_ext(url) ==
    IF ~Truthy(url) \/ Strip(url) = <<>> THEN Outcome(FALSE, "No URL provided")
    ELSE IF urlparse(url).scheme = <<>> \/ urlparse(url).netloc = <<>>
    THEN Outcome(FALSE, "Invalid URL format")
    ELSE IF urlparse(url).scheme \notin {<<"h", "t", "t", "p">>, <<"h", "t", "t", "p", "s">>}
    THEN Outcome(FALSE, "URL must start with http:// or https://")
    ELSE Outcome(TRUE, "")

\* validate_url_file(url) up to the HEAD request (lines 30-47): the result
\* when it returns there, ok = TRUE when it goes on to the probe.
validate_url_checks(url) ==
    IF ~Truthy(url) \/ Strip(url) = <<>> THEN Outcome(FALSE, "No URL provided")
    ELSE LET parsed_url == urlparse(url)
         IN IF parsed_url.scheme = <<>> \/ parsed_url.netloc = <<>>
            THEN Outcome(FALSE, "Invalid URL format")
            ELSE IF parsed_url.scheme \notin {<<"h", "t", "t", "p">>, <<"h", "t", "t", "p", "s">>}
            THEN Outcome(FALSE, "URL must start with http:// or https://")
            ELSE IF Lower(SplitExt(parsed_url.path)) \notin valid_extensions
            THEN Outcome(FALSE, "Invalid file type in URL. Supported formats")
            ELSE Outcome(TRUE, "")

\* A HEAD or GET response: err is a requests.exceptions.RequestException
\* raised instead of a response.
Response(err, status, cl, body) ==
    [err |-> err, status |-> status, content_length |-> cl, body |-> body]

NoResponse == Response(FALSE, 0, None, 0)

\* validate_url_file(url) from the HEAD response on (lines 50-65).
validate_url_response(response) ==
    IF response.err THEN Outcome(FALSE, "Error accessing URL")
    ELSE IF response.status # 200 THEN Outcome(FALSE, "Could not access URL (HTTP status)")
    ELSE IF Truthy(response.content_length) /\ ~IsInt(response.content_length)
         THEN Outcome(FALSE, "Error validating URL")
    ELSE IF Truthy(response.content_length) /\ IntValue(response.content_length) > MaxBytes
         THEN Outcome(FALSE, "File size exceeds 25MB limit")
         ELSE Outcome(TRUE, "File is valid")

\* The filename handed to the capability for a remote source (lines 222-224).
UrlFilename(url) ==
    IF Basename(urlparse(url).path) = <<>>
    THEN <<"a", "u", "d", "i", "o", "_", "f", "r", "o", "m", "_", "u", "r", "l">>
    ELSE Basename(urlparse(url).path)

\* ---------------------------------------------------------- exceptions
NoExc == [cls |-> "none", msg |-> ""]

Exc(cls, msg) == [cls |-> cls, msg |-> msg]

NoRet == [site |-> "none", prefix |-> "", detail |-> ""]

ErrorRet(prefix, detail) == [site |-> "error", prefix |-> prefix, detail |-> detail]

TextRet(text) == [site |-> "transcript", prefix |-> "", detail |-> text]

\* Subclasses of Exception the pipeline's calls raise.
ExceptionClasses == {"RequestException", "OSError", "ValueError", "APIError"}

\* A handler that catches download errors only: a faulty variant.
HandlerRequestsOnly(fn, e) ==
    IF fn = "transcribe_audio_from_url" /\ e.cls = "RequestException"
    THEN [pc |-> "returned", ret |-> ErrorRet("Error downloading file: ", e.msg)]
    ELSE [pc |-> "raised", ret |-> NoRet]

\* The except clauses closing each entry point (lines 147-148, 239-242):
\* where an exception that reaches them leaves the call.
Handler(fn, e) ==
    IF fn = "transcribe_audio_from_url" /\ e.cls = "RequestException"
    THEN [pc |-> "returned", ret |-> ErrorRet("Error downloading file: ", e.msg)]
    ELSE IF e.cls \in ExceptionClasses
    THEN [pc |-> "returned", ret |-> ErrorRet("Error: ", e.msg)]
    ELSE [pc |-> "raised", ret |-> NoRet]

\* ------------------------------------------------------ temporary files
TmpNames == 1..NumTmpNames

NoName == 0

\* A name generator that does not create exclusively: a faulty variant.
FreshNamesAny(files) == TmpNames

\* tempfile.NamedTemporaryFile creates its file exclusively (O_EXCL): it
\* never hands out the name of a file that exists.
FreshNames(files) == {n \in TmpNames : ~files[n].exists}

\* The bytes on disk after the download loop (lines 213-214) has written
\* `chunks` chunks of a body of `body` bytes: every chunk holds ChunkSize
\* bytes but the last, which holds what is left; nothing else bounds them.
Written(body, chunks) == Min(body, chunks * ChunkSize)

\* The chunks iter_content(chunk_size=8192) yields for a body.
NumChunks(body) == (body + ChunkSize - 1) \div ChunkSize

\* ------------------------------------------------------- sample inputs
\* The uploaded files, URLs and probe responses the calls are tried on.
AllAudioFiles ==
    {NoFile, FileObj(f_podcast, 5 * MiB, FALSE)}
    \cup {FileObj(n, sz, TRUE) :
            n \in {f_podcast, f_clipUpper, f_notes, f_talk, f_dotfile, f_dotdir, f_bak},
            sz \in {5 * MiB, MaxBytes, MaxBytes + 1, 26 * MiB}}

AllAudioUrls ==
    {None, <<>>, u_blank, u_clip, u_talk, u_ftp, u_noscheme, u_query,
     u_nohost, u_barehost, u_upper}

AllHeadResponses ==
    {Response(TRUE, 0, None, 0), Response(FALSE, 404, None, 0),
     Response(FALSE, 204, None, 0)}
    \cup {Response(FALSE, 200, cl, 0) :
            cl \in {None, <<>>, cl_5, cl_max, cl_over, cl_30MiB, cl_bad}}

\* The pure functions tabulated over the sample inputs: each action looks
\* its result up instead of computing it again in every state.
validate_file_of == [f \in AllAudioFiles |-> validate_file(f)]

validate_url_checks_of == [u \in AllAudioUrls |-> validate_url_checks(u)]

validate_url_response_of == [x \in AllHeadResponses |-> validate_url_response(x)]

UrlFilename_of == [u \in AllAudioUrls |-> UrlFilename(u)]

Basename_of == [f \in AllAudioFiles |-> Basename(f.name)]

\* ---------------------------------------------------------------- state
VARIABLES
    environ,   \* the value of GROQ_API_KEY in the process environment, or None
    workers,   \* the worker threads that serve a call
    files,     \* the temporary directory: name -> [exists, size]
    frame      \* per worker: the locals of its call, its position and result

vars == <<environ, workers, files, frame>>

Reqs == 1..NumReq

\* With one worker the inputs range over the wide sets; with several, over
\* one representative each, so that the interleavings stay enumerable.
Wide == Cardinality(workers) = 1

ApiKeys == IF Wide THEN {None, <<>>, s_X} ELSE {s_X}

Requests ==
    IF Wide
    THEN {NoRequestObj, RequestWith(None), RequestWith(h_BearerH),
          RequestWith(h_BearerOnly), RequestWith(h_BasicH)}
    ELSE {NoRequestObj}

AudioFiles == IF Wide THEN AllAudioFiles ELSE {FileObj(f_podcast, 5 * MiB, TRUE)}

AudioUrls == IF Wide THEN AllAudioUrls ELSE {u_clip}

HeadResponses == IF Wide THEN AllHeadResponses ELSE {Response(FALSE, 200, None, 0)}

GetResponses ==
    IF Wide
    THEN {Response(TRUE, 0, None, 0), Response(FALSE, 404, None, 0)}
         \cup {Response(FALSE, 200, None, b) :
                 b \in {0, ChunkSize + 1, MaxBytes, MaxBytes + 1, 30 * MiB}}
    ELSE {Response(TRUE, 0, None, 0), Response(FALSE, 200, None, ChunkSize + 1)}

\* How the download loop ends: after every chunk, or with an exception of
\* class cls after `chunks` chunks were written.
StreamOutcomes(body) ==
    {[done |-> TRUE, chunks |-> NumChunks(body), cls |-> "none"]}
    \cup {[done |-> FALSE, chunks |-> k, cls |-> c] :
            k \in (IF Wide THEN {0, 1, NumChunks(body) - 1} ELSE {0})
                  \cap 0..(NumChunks(body) - 1),
            c \in (IF Wide THEN {"RequestException", "OSError"} ELSE {"OSError"})}

\* What the transcription capability answers: a text, or a fault.
CapabilityOutcomes ==
    {[ok |-> TRUE, text |-> t] : t \in (IF Wide THEN {"hello world", ""} ELSE {"hello world"})}
    \cup {[ok |-> FALSE, text |-> "invalid api key"]}

NoPayload == [filename |-> <<>>, bytes |-> 0]

IdleFrame ==
    [pc |-> "idle", fn |-> "none", api_key |-> None, request |-> NoRequestObj,
     audio_file |-> NoFile, audio_url |-> None, actual_api_key |-> None,
     is_valid |-> "unset", message |-> "", head |-> NoResponse,
     response |-> NoResponse, temp_file |-> NoName, temp_file_path |-> NoName,
     payload |-> NoPayload, sent |-> NoPayload, answer |-> "none",
     held |-> NoRet, pending |-> NoExc, unlink_failed |-> FALSE,
     ret |-> NoRet, log |-> <<>>]

NoFiles == [n \in TmpNames |-> [exists |-> FALSE, size |-> 0]]

Init ==
    /\ workers = {1}
    /\ environ \in {None, <<>>, s_E}
    /\ files = NoFiles
    /\ frame = [r \in Reqs |-> IdleFrame]

ConcInit ==
    /\ workers = Reqs
    /\ environ = None
    /\ files = NoFiles
    /\ frame = [r \in Reqs |-> IdleFrame]

\* frame[r] with the fields of upd assigned.
Set(r, upd) ==
    frame' = [frame EXCEPT ![r] =
                [k \in DOMAIN frame[r] |-> IF k \in DOMAIN upd THEN upd[k] ELSE frame[r][k]]]

Log(r, ev) == Append(frame[r].log, ev)

\* -------------------------------------------------------------- actions
\* The framework calls transcribe_audio(audio_file, api_key, request).
CallFile(r) ==
    /\ r \in workers
    /\ frame[r].pc = "idle"
    /\ \E f \in AudioFiles, k \in ApiKeys, rq \in Requests :
         Set(r, [pc |-> "resolve", fn |-> "transcribe_audio",
                 audio_file |-> f, api_key |-> k, request |-> rq])
    /\ UNCHANGED <<environ, workers, files>>

\* The framework calls transcribe_audio_from_url(audio_url, api_key, request).
CallUrl(r) ==
    /\ r \in workers
    /\ frame[r].pc = "idle"
    /\ \E u \in AudioUrls, k \in ApiKeys, rq \in Requests :
         Set(r, [pc |-> "resolve", fn |-> "transcribe_audio_from_url",
                 audio_url |-> u, api_key |-> k, request |-> rq])
    /\ UNCHANGED <<environ, workers, files>>

\* A resolution step that goes on without a key: a faulty variant.
ResolveKeyNoGate(r) ==
    /\ frame[r].pc = "resolve"
    /\ Set(r, [pc |-> "validate", log |-> Log(r, "resolve"),
               actual_api_key |-> ResolveApiKey(environ, frame[r].api_key, frame[r].request)])
    /\ UNCHANGED <<environ, workers, files>>

\* Lines 113-124 and 184-195: resolve the key, return without one.
ResolveKey(r) ==
    /\ frame[r].pc = "resolve"
    /\ LET key == ResolveApiKey(environ, frame[r].api_key, frame[r].request)
       IN IF ~Truthy(key)
          THEN Set(r, [pc |-> "returned", actual_api_key |-> key,
                       log |-> Log(r, "resolve"),
                       ret |-> ErrorRet("Error: ", MissingKeyMsg)])
          ELSE Set(r, [pc |-> "validate", actual_api_key |-> key,
                       log |-> Log(r, "resolve")])
    /\ UNCHANGED <<environ, workers, files>>

\* A validation step that goes on whatever validate_file answers: a faulty
\* variant.
ValidateFileNoGate(r) ==
    /\ frame[r].pc = "validate"
    /\ frame[r].fn = "transcribe_audio"
    /\ LET v == validate_file_of[frame[r].audio_file]
       IN Set(r, [pc |-> "open", message |-> v.message,
                  is_valid |-> IF v.ok THEN "yes" ELSE "no",
                  log |-> Log(r, "validate")])
    /\ UNCHANGED <<environ, workers, files>>

\* Lines 126-132: the file must be given and pass validate_file.
ValidateFile(r) ==
    /\ frame[r].pc = "validate"
    /\ frame[r].fn = "transcribe_audio"
    /\ LET v == validate_file_of[frame[r].audio_file]
       IN IF frame[r].audio_file.isNone
          THEN Set(r, [pc |-> "returned",
                       ret |-> ErrorRet("Error: ", "Please upload an audio or video file")])
          ELSE IF v.raises
          THEN Set(r, [log |-> Log(r, "validate")]
                      @@ Handler(frame[r].fn, Exc("OSError", v.message)))
          ELSE IF ~v.ok
          THEN Set(r, [pc |-> "returned", is_valid |-> "no", message |-> v.message,
                       log |-> Log(r, "validate"),
                       ret |-> ErrorRet("Error: ", v.message)])
          ELSE Set(r, [pc |-> "open", is_valid |-> "yes", message |-> v.message,
                       log |-> Log(r, "validate")])
    /\ UNCHANGED <<environ, workers, files>>

\* Lines 135-141: open the uploaded file and read it.
OpenLocal(r) ==
    /\ frame[r].pc = "open"
    /\ frame[r].fn = "transcribe_audio"
    /\ \E ok \in BOOLEAN :
         IF ok
         THEN Set(r, [pc |-> "transcribe", log |-> Log(r, "read"),
                      payload |-> [filename |-> Basename_of[frame[r].audio_file],
                                   bytes |-> frame[r].audio_file.size]])
         ELSE Set(r, [log |-> Log(r, "read")]
                     @@ Handler(frame[r].fn, Exc("OSError", "cannot read file")))
    /\ UNCHANGED <<environ, workers, files>>

\* Lines 140-145: the transcription call for an uploaded file.
TranscribeLocal(r) ==
    /\ frame[r].pc = "transcribe"
    /\ frame[r].fn = "transcribe_audio"
    /\ \E o \in CapabilityOutcomes :
         IF o.ok
         THEN Set(r, [pc |-> "returned", log |-> Log(r, "transcribe"),
                      sent |-> frame[r].payload, answer |-> o.text,
                      ret |-> TextRet(o.text)])
         ELSE Set(r, [log |-> Log(r, "transcribe"), sent |-> frame[r].payload]
                     @@ Handler(frame[r].fn, Exc("APIError", o.text)))
    /\ UNCHANGED <<environ, workers, files>>

\* Lines 197-203 with lines 30-47: the URL must be given and pass the checks
\* validate_url_file makes before it probes.
CheckUrl(r) ==
    /\ frame[r].pc = "validate"
    /\ frame[r].fn = "transcribe_audio_from_url"
    /\ LET audio_url == frame[r].audio_url
           v == validate_url_checks_of[audio_url]
       IN IF ~Truthy(audio_url) \/ Strip(audio_url) = <<>>
          THEN Set(r, [pc |-> "returned",
                       ret |-> ErrorRet("Error: ", "Please provide a URL to an audio or video file")])
          ELSE IF ~v.ok
          THEN Set(r, [pc |-> "returned", is_valid |-> "no", message |-> v.message,
                       log |-> Log(r, "validate"),
                       ret |-> ErrorRet("Error: ", v.message)])
          ELSE Set(r, [pc |-> "head", log |-> Log(r, "validate")])
    /\ UNCHANGED <<environ, workers, files>>

\* Lines 50-65 with lines 201-206: the HEAD request and what
\* validate_url_file makes of its response.
HeadRequest(r) ==
    /\ frame[r].pc = "head"
    /\ \E response \in HeadResponses :
         LET v == validate_url_response_of[response]
         IN IF ~v.ok
            THEN Set(r, [pc |-> "returned", head |-> response, is_valid |-> "no",
                         message |-> v.message, log |-> Log(r, "HEAD"),
                         ret |-> ErrorRet("Error: ", v.message)])
            ELSE Set(r, [pc |-> "mktemp", head |-> response, is_valid |-> "yes",
                         message |-> v.message, log |-> Log(r, "HEAD")])
    /\ UNCHANGED <<environ, workers, files>>

\* Line 209: tempfile.NamedTemporaryFile(delete=False) creates a file under
\* a name no file has, or raises OSError when it cannot.
MkTemp(r) ==
    /\ frame[r].pc = "mktemp"
    /\ \E n \in FreshNames(files) \cup {NoName} :
         IF n = NoName
         THEN /\ Set(r, [log |-> Log(r, "mktemp")]
                        @@ Handler(frame[r].fn, Exc("OSError", "cannot create temporary file")))
              /\ files' = files
         ELSE /\ Set(r, [pc |-> "get", temp_file |-> n, log |-> Log(r, "mktemp")])
              /\ files' = [files EXCEPT ![n] = [exists |-> TRUE, size |-> 0]]
    /\ UNCHANGED <<environ, workers>>

\* Lines 210-211: the GET request and raise_for_status. An exception leaves
\* the with block, which closes the file and (delete=False) keeps it.
Get(r) ==
    /\ frame[r].pc = "get"
    /\ \E response \in GetResponses :
         IF response.err \/ response.status >= 400
         THEN Set(r, [response |-> response, log |-> Log(r, "GET")]
                     @@ Handler(frame[r].fn, Exc("RequestException", "download failed")))
         ELSE Set(r, [pc |-> "stream", response |-> response, log |-> Log(r, "GET")])
    /\ UNCHANGED <<environ, workers, files>>

\* Lines 213-216: the download loop writes every chunk the server sends,
\* then temp_file_path is set and the with block closes the file. An
\* exception in the loop leaves the with block the same way as in Get.
Stream(r) ==
    /\ frame[r].pc = "stream"
    /\ \E o \in StreamOutcomes(frame[r].response.body) :
         /\ files' = [files EXCEPT ![frame[r].temp_file].size =
                         Written(frame[r].response.body, o.chunks)]
         /\ IF o.done
            THEN Set(r, [pc |-> "open", temp_file_path |-> frame[r].temp_file,
                         log |-> Log(r, "write")])
            ELSE Set(r, [log |-> Log(r, "write")]
                        @@ Handler(frame[r].fn, Exc(o.cls, "transfer failed")))
    /\ UNCHANGED <<environ, workers>>

\* Lines 220-224 and 228: open the downloaded file, name it, read it. An
\* exception here is inside the inner try: the finally clause runs next.
OpenTemp(r) ==
    /\ frame[r].pc = "open"
    /\ frame[r].fn = "transcribe_audio_from_url"
    /\ \E ok \in BOOLEAN :
         IF ok /\ files[frame[r].temp_file_path].exists
         THEN Set(r, [pc |-> "transcribe", log |-> Log(r, "read"),
                      payload |-> [filename |-> UrlFilename_of[frame[r].audio_url],
                                   bytes |-> files[frame[r].temp_file_path].size]])
         ELSE Set(r, [pc |-> "finally", log |-> Log(r, "read"),
                      pending |-> Exc("OSError", "cannot read file")])
    /\ UNCHANGED <<environ, workers, files>>

\* Lines 227-232: the transcription call for a downloaded file; its text is
\* held as the return value while the finally clause runs.
TranscribeTemp(r) ==
    /\ frame[r].pc = "transcribe"
    /\ frame[r].fn = "transcribe_audio_from_url"
    /\ \E o \in CapabilityOutcomes :
         IF o.ok
         THEN Set(r, [pc |-> "finally", log |-> Log(r, "transcribe"),
                      sent |-> frame[r].payload, answer |-> o.text,
                      held |-> TextRet(o.text)])
         ELSE Set(r, [pc |-> "finally", log |-> Log(r, "transcribe"),
                      sent |-> frame[r].payload,
                      pending |-> Exc("APIError", o.text)])
    /\ UNCHANGED <<environ, workers, files>>

\* Lines 234-242: the finally clause unlinks the file when it exists. An
\* exception raised by os.unlink replaces the held return value or the
\* pending exception and goes to the outer except clauses.
Finally(r) ==
    /\ frame[r].pc = "finally"
    /\ \E ok \in BOOLEAN :
         LET path == frame[r].temp_file_path
             failed == files[path].exists /\ ~ok
             e == IF failed THEN Exc("OSError", "cannot unlink file") ELSE frame[r].pending
         IN /\ files' = IF files[path].exists /\ ok
                        THEN [files EXCEPT ![path] = [exists |-> FALSE, size |-> 0]]
                        ELSE files
            /\ IF e # NoExc
               THEN Set(r, [unlink_failed |-> failed, log |-> Log(r, "unlink")]
                           @@ Handler(frame[r].fn, e))
               ELSE Set(r, [pc |-> "returned", unlink_failed |-> failed,
                            log |-> Log(r, "unlink"), ret |-> frame[r].held])
    /\ UNCHANGED <<environ, workers>>

Next ==
    \E r \in Reqs :
        \/ CallFile(r)
        \/ CallUrl(r)
        \/ ResolveKey(r)
        \/ ValidateFile(r)
        \/ OpenLocal(r)
        \/ TranscribeLocal(r)
        \/ CheckUrl(r)
        \/ HeadRequest(r)
        \/ MkTemp(r)
        \/ Get(r)
        \/ Stream(r)
        \/ OpenTemp(r)
        \/ TranscribeTemp(r)
        \/ Finally(r)

\* One worker serving one call, over the wide input sets.
Spec == Init /\ [][Next]_vars

\* Every worker serving one call, all interleavings.
ConcSpec == ConcInit /\ [][Next]_vars

\* ------------------------------------------------------------- claims
Has(r, ev) == \E i \in DOMAIN frame[r].log : frame[r].log[i] = ev

Count(r, ev) == Cardinality({i \in DOMAIN frame[r].log : frame[r].log[i] = ev})

Pos(r, ev) == CHOOSE i \in DOMAIN frame[r].log : frame[r].log[i] = ev

\* The token of an 'Authorization: Bearer <token>' header, None without one.
BearerToken(request) ==
    IF /\ ~request.isNone
       /\ Truthy(request.Authorization)
       /\ StartsWith(request.Authorization, BearerPrefix)
    THEN SliceFrom(request.Authorization, 7)
    ELSE None

MissingKeyRet == ErrorRet("Error: ", MissingKeyMsg)

\* The call of worker r resolved to `key`, or failed for want of one when
\* key is None.
ResolvedTo(r, key) ==
    IF key = None
    THEN frame[r].pc = "returned" /\ frame[r].ret = MissingKeyRet
    ELSE frame[r].actual_api_key = key /\ frame[r].ret # MissingKeyRet

\* C1 as stated: the key is the first non-empty value of the environment
\* value, the Bearer token of the header and the explicit api_key, in that
\* order, and the call fails with the missing-credential error exactly when
\* none of the three is a non-empty string.
C1_HeaderBeforeExplicit ==
    \A r \in Reqs :
        Has(r, "resolve") =>
            ResolvedTo(r,
                IF Truthy(environ) THEN environ
                ELSE IF Truthy(BearerToken(frame[r].request))
                THEN BearerToken(frame[r].request)
                ELSE IF Truthy(frame[r].api_key) THEN frame[r].api_key
                ELSE None)

\* C1 amended: the key is the environment value when it is non-empty; else
\* the explicit api_key when it is non-empty and GROQ_API_KEY is not set at
\* all; else the Bearer token when it is non-empty; and the call fails with
\* the missing-credential error exactly when none of these applies.
C1_ExplicitBeforeHeader ==
    \A r \in Reqs :
        Has(r, "resolve") =>
            ResolvedTo(r,
                IF Truthy(environ) THEN environ
                ELSE IF environ = None /\ Truthy(frame[r].api_key) THEN frame[r].api_key
                ELSE IF Truthy(BearerToken(frame[r].request))
                THEN BearerToken(frame[r].request)
                ELSE None)

\* C1 witness: no environment value, header 'Bearer H', explicit X, and the
\* call used X.
C1_Witness ==
    \E r \in Reqs :
        /\ Has(r, "resolve")
        /\ environ = None
        /\ frame[r].request = RequestWith(h_BearerH)
        /\ frame[r].api_key = s_X
        /\ frame[r].actual_api_key = s_X

\* C2 as stated: once a call of transcribe_audio_from_url has returned, the
\* temporary file it created no longer exists.
C2_TempFileGone ==
    \A r \in Reqs :
        (/\ frame[r].fn = "transcribe_audio_from_url"
         /\ frame[r].pc = "returned"
         /\ frame[r].temp_file # NoName)
            => ~files[frame[r].temp_file].exists

NoCredential(r) ==
    /\ ~Truthy(environ)
    /\ ~Truthy(frame[r].api_key)
    /\ ~Truthy(BearerToken(frame[r].request))

\* C3: a call with no credential in the environment, the header or the
\* argument has returned the missing-credential error as soon as it has
\* resolved, and nothing but the resolution has happened in it: no source
\* validation, no HEAD probe, no download, no transcription call.
C3_MissingCredentialFirst ==
    \A r \in Reqs :
        (Has(r, "resolve") /\ NoCredential(r)) =>
            /\ frame[r].pc = "returned"
            /\ frame[r].ret = MissingKeyRet
            /\ frame[r].log = <<"resolve">>
            /\ frame[r].is_valid = "unset"
            /\ frame[r].temp_file = NoName

\* C3 witness: a URL call without any credential returned the
\* missing-credential error.
C3_Witness ==
    \E r \in Reqs :
        /\ frame[r].fn = "transcribe_audio_from_url"
        /\ frame[r].audio_url = u_clip
        /\ NoCredential(r)
        /\ frame[r].pc = "returned"
        /\ frame[r].ret = MissingKeyRet

\* A URL that is well formed, of scheme http or https, with an extension
\* of the allow-list.
UrlPassesChecks(url) ==
    /\ Truthy(url)
    /\ urlparse(url).scheme \in {<<"h", "t", "t", "p">>, <<"h", "t", "t", "p", "s">>}
    /\ urlparse(url).netloc # <<>>
    /\ Lower(SplitExt(urlparse(url).path)) \in valid_extensions

\* A probe response of success status that does not declare more than
\* 25 MiB.
ProbePasses(response) ==
    /\ ~response.err
    /\ response.status \in 200..299
    /\ ~(IsInt(response.content_length) /\ IntValue(response.content_length) > MaxBytes)

\* C4: a HEAD probe was sent only for a URL that passes the well-formedness,
\* scheme and extension checks, and a GET was sent only after a probe that
\* answered with a success status and no content-length above 25 MiB.
C4_GatesBeforeRequests ==
    \A r \in Reqs :
        /\ Has(r, "HEAD") => (Has(r, "validate") /\ UrlPassesChecks(frame[r].audio_url))
        /\ Has(r, "GET") => (/\ Has(r, "HEAD")
                             /\ Pos(r, "HEAD") < Pos(r, "GET")
                             /\ ProbePasses(frame[r].head))
        /\ (frame[r].pc = "returned" /\ frame[r].fn = "transcribe_audio_from_url"
              /\ ~UrlPassesChecks(frame[r].audio_url)) => ~Has(r, "HEAD")

\* C4 witness: the probe declared 30 MiB and the call returned without a
\* download.
C4_Witness ==
    \E r \in Reqs :
        /\ frame[r].pc = "returned"
        /\ Has(r, "HEAD")
        /\ frame[r].head.status = 200
        /\ frame[r].head.content_length = cl_30MiB
        /\ ~Has(r, "GET")
        /\ frame[r].temp_file = NoName

\* The source of worker r's call passes format and size validation.
SourceValid(r) ==
    IF frame[r].fn = "transcribe_audio"
    THEN /\ ~frame[r].audio_file.isNone
         /\ frame[r].audio_file.size <= MaxBytes
         /\ Lower(SplitExt(frame[r].audio_file.name)) \in valid_extensions
    ELSE /\ UrlPassesChecks(frame[r].audio_url)
         /\ ProbePasses(frame[r].head)

\* C5: in every call the transcription capability is invoked at most once;
\* when it was invoked, a key had been resolved and the source had passed
\* validation before; a call whose validation rejected never invokes it.
C5_OneCallAfterValidation ==
    \A r \in Reqs :
        /\ Count(r, "transcribe") <= 1
        /\ Has(r, "transcribe") =>
              /\ Truthy(frame[r].actual_api_key)
              /\ frame[r].is_valid = "yes"
              /\ SourceValid(r)
              /\ Has(r, "resolve") /\ Has(r, "validate")
              /\ Pos(r, "resolve") < Pos(r, "validate")
              /\ Pos(r, "validate") < Pos(r, "transcribe")
        /\ frame[r].is_valid = "no" => ~Has(r, "transcribe")
        /\ (frame[r].pc = "returned" /\ ~SourceValid(r)) => ~Has(r, "transcribe")

\* C5 witness: the capability failed, the call returned, and it was called
\* once.
C5_Witness ==
    \E r \in Reqs :
        /\ frame[r].pc = "returned"
        /\ frame[r].fn = "transcribe_audio"
        /\ Count(r, "transcribe") = 1
        /\ frame[r].answer = "none"
        /\ frame[r].ret = ErrorRet("Error: ", "invalid api key")

\* The next step of worker r's call.
Step(r) ==
    \/ ResolveKey(r) \/ ValidateFile(r) \/ OpenLocal(r) \/ TranscribeLocal(r)
    \/ CheckUrl(r) \/ HeadRequest(r) \/ MkTemp(r) \/ Get(r) \/ Stream(r)
    \/ OpenTemp(r) \/ TranscribeTemp(r) \/ Finally(r)

\* C6: no exception escapes a call; a call that has returned holds either
\* the text the capability returned (Completed) or one error message
\* (Faulted), never both and never neither; and a call that has not
\* returned can take its next step.
C6_OneOutcome ==
    \A r \in Reqs :
        /\ frame[r].pc # "raised"
        /\ frame[r].pc = "returned" =>
              \/ /\ frame[r].ret.site = "transcript"
                 /\ Has(r, "transcribe")
                 /\ frame[r].answer # "none"
                 /\ frame[r].ret = TextRet(frame[r].answer)
              \/ /\ frame[r].ret.site = "error"
                 /\ frame[r].ret.prefix \in {"Error: ", "Error downloading file: "}
                 /\ frame[r].ret.detail # ""
        /\ frame[r].pc # "returned" => frame[r].ret = NoRet
        /\ frame[r].pc \notin {"idle", "returned"} => ENABLED Step(r)

\* C6 witness: the download loop failed and the call returned one error.
C6_Witness ==
    \E r \in Reqs :
        /\ frame[r].pc = "returned"
        /\ Has(r, "write")
        /\ frame[r].temp_file_path = NoName
        /\ frame[r].ret = ErrorRet("Error: ", "transfer failed")

\* C7 as stated: when os.unlink fails in the cleanup, the caller still gets
\* the transcript if the transcription call succeeded, and that call's
\* error if it failed.
C7_CleanupKeepsOutcome ==
    \A r \in Reqs :
        (frame[r].pc = "returned" /\ frame[r].unlink_failed) =>
            /\ frame[r].answer # "none" => frame[r].ret = TextRet(frame[r].answer)
            /\ frame[r].pending # NoExc =>
                  frame[r].ret = ErrorRet("Error: ", frame[r].pending.msg)

\* validate_file was applied to a file that exists and whose extension,
\* lower-cased, is outside the allow-list.
ValidatedBadExtension(r) ==
    /\ frame[r].fn = "transcribe_audio"
    /\ Has(r, "validate")
    /\ frame[r].audio_file.exists
    /\ Lower(SplitExt(frame[r].audio_file.name)) \notin valid_extensions

\* C8 as stated: for a file with an extension outside the allow-list,
\* whatever its size, validate_file answers (False, "Invalid file type...").
C8_InvalidTypeAnySize ==
    \A r \in Reqs :
        ValidatedBadExtension(r) =>
            /\ frame[r].is_valid = "no"
            /\ frame[r].message = "Invalid file type. Supported formats"

\* C8 amended: for a file with an extension outside the allow-list,
\* validate_file answers False, with the "Invalid file type" reason when
\* the file holds at most 25 MiB and with the size reason when it holds more.
C8_InvalidTypeWithinLimit ==
    \A r \in Reqs :
        ValidatedBadExtension(r) =>
            /\ frame[r].is_valid = "no"
            /\ frame[r].message =
                  IF frame[r].audio_file.size <= MaxBytes
                  THEN "Invalid file type. Supported formats"
                  ELSE "File size exceeds 25MB limit"

\* C8 witness: /tmp/a.mp3.bak of exactly 25 MiB was rejected for its type.
C8_Witness ==
    \E r \in Reqs :
        /\ ValidatedBadExtension(r)
        /\ frame[r].audio_file.name = f_bak
        /\ frame[r].audio_file.size = MaxBytes
        /\ frame[r].pc = "returned"
        /\ frame[r].ret = ErrorRet("Error: ", "Invalid file type. Supported formats")

\* C9 as stated: a probe without content-length is accepted, and the bytes
\* written to the temporary file and handed to the capability never exceed
\* 25 MiB.
C9_DownloadBounded ==
    \A r \in Reqs :
        /\ (Has(r, "HEAD") /\ ~frame[r].head.err /\ frame[r].head.status = 200
              /\ frame[r].head.content_length = None) => frame[r].is_valid = "yes"
        /\ frame[r].temp_file # NoName => files[frame[r].temp_file].size <= MaxBytes
        /\ frame[r].sent.bytes <= MaxBytes

\* Worker r's call holds a temporary file it has not yet cleaned up.
InFlightWithFile(r) ==
    /\ frame[r].fn = "transcribe_audio_from_url"
    /\ frame[r].pc \in {"get", "stream", "open", "transcribe", "finally"}

\* C10: under every interleaving, each in-flight call that reached the
\* download owns one temporary file, which exists and whose name differs
\* from that of every other in-flight call; and a file disappears only in
\* the cleanup of the call that owns it.
C10_OwnTempFile ==
    /\ [](\A r \in Reqs :
            InFlightWithFile(r) =>
                /\ frame[r].temp_file \in TmpNames
                /\ files[frame[r].temp_file].exists
                /\ \A q \in Reqs \ {r} :
                      InFlightWithFile(q) => frame[q].temp_file # frame[r].temp_file)
    /\ [][\A n \in TmpNames :
            (files[n].exists /\ ~files'[n].exists) =>
                \E r \in Reqs :
                    /\ frame[r].pc = "finally"
                    /\ frame[r].temp_file = n
                    /\ frame'[r].pc = "returned"
                    /\ \A q \in Reqs \ {r} :
                          InFlightWithFile(q) => frame[q].temp_file # n]_vars

\* C10 witness: one call cleaned its file up and returned while another,
\* downloading at the same time, still holds its own.
C10_Witness ==
    \E r, q \in Reqs :
        /\ r # q
        /\ frame[r].pc = "returned"
        /\ Has(r, "unlink")
        /\ ~frame[r].unlink_failed
        /\ ~files[frame[r].temp_file].exists
        /\ frame[q].pc = "finally"
        /\ frame[q].temp_file # frame[r].temp_file
        /\ files[frame[q].temp_file].exists

====
